---- MODULE Spec2Model ----
(***************************************************************************)
(* Model of the point-cloud codec and spacing estimator of point_io.cpp /  *)
(* point_io.hpp: PointSet, spacing(), the native .ply reader and writer,   *)
(* the label remap of readPointSet and getClassMappings.                   *)
(*                                                                         *)
(* Conventions.                                                            *)
(*  - A std::string is a TLA+ string; positions are 0-based in the code    *)
(*    and 1-based here.                                                    *)
(*  - A float is its 32-bit pattern, written as a natural number; a file   *)
(*    body is a sequence of bytes (binary) or of tokens (ASCII).           *)
(*  - A size_t whose top bit is set is written as the negative number with *)
(*    the same bit pattern (size_t(-1) is written -1).                     *)
(*  - m_spacing is held in units of 0.01, so the sentinel -1.0 is -100.    *)
(*  - A thrown exception is a record [ok |-> FALSE, err |-> <what>].       *)
(***************************************************************************)
EXTENDS Integers, Sequences, FiniteSets, TLC

VARIABLES
    filename,   \* the file name handed to readPointSet / savePointSet
    disk,       \* the .ply file on disk: [hdr, body], or NoFile
    jsons,      \* the JSON files on disk: path -> content
    pSet,       \* the PointSet in memory
    src,        \* the PointSet appendPoint / trackPoint take points from
    ret,        \* outcome of the last call
    saved,      \* the PointSet as it was when savePointSet was called
    hist        \* what the spacing() calls so far did

vars == <<filename, disk, jsons, pSet, src, ret, saved, hist>>

(***************************************************************************)
(* std::string helpers                                                     *)
(***************************************************************************)

Min(a, b) == IF a < b THEN a ELSE b

Max(a, b) == IF a > b THEN a ELSE b

\* s.find(p) == 0
StartsWith(s, p) == Len(s) >= Len(p) /\ SubSeq(s, 1, Len(p)) = p

\* line.substr(line.length() - prop.length(), prop.length()) throws
\* std::out_of_range when the position wraps around (line shorter than prop)
SuffixThrows(line, prop) == Len(line) < Len(prop)

\* line.substr(line.length() - prop.length(), prop.length()) == prop
SuffixIs(line, prop) == SubSeq(line, Len(line) - Len(prop) + 1, Len(line)) = prop

\* line.erase(std::remove(line.begin(), line.end(), '\r'), line.end())
RECURSIVE RemoveCR(_)
RemoveCR(s) ==
    IF Len(s) = 0 THEN s
    ELSE IF SubSeq(s, 1, 1) = "\r" THEN RemoveCR(SubSeq(s, 2, Len(s)))
    ELSE SubSeq(s, 1, 1) \o RemoveCR(SubSeq(s, 2, Len(s)))

\* position of the first ' ' of s, 0 when there is none
RECURSIVE FindSpace(_, _)
FindSpace(s, i) ==
    IF i > Len(s) THEN 0
    ELSE IF SubSeq(s, i, i) = " " THEN i
    ELSE FindSpace(s, i + 1)

\* while (std::getline(iss, token, ' ')) tokens.push_back(token)
RECURSIVE Tokens(_)
Tokens(s) ==
    IF Len(s) = 0 THEN << >>
    ELSE LET i == FindSpace(s, 1) IN
         IF i = 0 THEN << s >>
         ELSE << SubSeq(s, 1, i - 1) >> \o Tokens(SubSeq(s, i + 1, Len(s)))

IsDigit(c) == c \in {"0", "1", "2", "3", "4", "5", "6", "7", "8", "9"}

DigitVal(c) ==
    CASE c = "0" -> 0 [] c = "1" -> 1 [] c = "2" -> 2 [] c = "3" -> 3
      [] c = "4" -> 4 [] c = "5" -> 5 [] c = "6" -> 6 [] c = "7" -> 7
      [] c = "8" -> 8 [] c = "9" -> 9

\* the value of the longest run of digits of s starting at position i
RECURSIVE DigitRun(_, _, _)
DigitRun(s, i, acc) ==
    IF i > Len(s) \/ ~IsDigit(SubSeq(s, i, i)) THEN acc
    ELSE DigitRun(s, i + 1, 10 * acc + DigitVal(SubSeq(s, i, i)))

\* position of the first character of s that is not white space
RECURSIVE SkipSpace(_, _)
SkipSpace(s, i) ==
    IF i <= Len(s) /\ SubSeq(s, i, i) \in {" ", "\t", "\r", "\n"}
    THEN SkipSpace(s, i + 1) ELSE i

\* std::stoi(s): white space, an optional sign, then digits; whatever
\* follows the digits is ignored; no digit at all is std::invalid_argument
StoI(s) ==
    LET i == SkipSpace(s, 1)
        signed == i <= Len(s) /\ SubSeq(s, i, i) \in {"+", "-"}
        neg == i <= Len(s) /\ SubSeq(s, i, i) = "-"
        j == IF signed THEN i + 1 ELSE i
    IN  IF j > Len(s) \/ ~IsDigit(SubSeq(s, j, j))
        THEN [ok |-> FALSE, err |-> "std::invalid_argument"]
        ELSE [ok |-> TRUE, val |-> IF neg THEN 0 - DigitRun(s, j, 0)
                                          ELSE DigitRun(s, j, 0)]

(***************************************************************************)
(* The file on disk.  Lines end with a newline; std::getline past the last *)
(* line leaves the empty string.                                           *)
(***************************************************************************)

NoFile == [hdr |-> << >>, body |-> << >>, present |-> FALSE]

File(h, b) == [hdr |-> h, body |-> b, present |-> TRUE]

\* std::getline(reader, line) for the i-th line of the file
LineAt(f, i) == IF i <= Len(f.hdr) THEN f.hdr[i] ELSE ""

Throw(what) == [ok |-> FALSE, err |-> what]

\* a call that ended in an exception, and the step of the call that threw
Fail(stage, what) == [ok |-> FALSE, err |-> what, stage |-> stage]

InvalidPly == "runtime_error: Invalid PLY file"

\* getVertexLine, reading from line i on: skips comment lines, returns the
\* first line that starts with "element", throws on any other line
RECURSIVE getVertexLine(_, _)
getVertexLine(f, i) ==
    LET line == LineAt(f, i) IN
    IF StartsWith(line, "element") THEN [ok |-> TRUE, line |-> line, next |-> i + 1]
    ELSE IF StartsWith(line, "comment") THEN getVertexLine(f, i + 1)
    ELSE Throw(InvalidPly)

\* the test of getVertexCount on the first two tokens
VertexTokensWrong(tokens) == tokens[1] # "element" /\ tokens[2] # "vertex"

\* getVertexCount: the int of std::stoi converted to size_t
getVertexCount(line) ==
    LET tokens == Tokens(line) IN
    IF Len(tokens) < 3 THEN Throw(InvalidPly)
    ELSE IF VertexTokensWrong(tokens) THEN Throw(InvalidPly)
    ELSE LET n == StoI(tokens[3]) IN
         IF n.ok THEN [ok |-> TRUE, count |-> n.val] ELSE Throw(n.err)

\* checkHeader(reader, prop) on the line it reads
checkHeader(rawline, prop) ==
    LET line == RemoveCR(rawline) IN
    IF SuffixThrows(line, prop) THEN Throw("std::out_of_range")
    ELSE IF ~SuffixIs(line, prop) THEN Throw("runtime_error: Invalid PLY file (expected property)")
    ELSE [ok |-> TRUE]

\* hasHeader(line, prop); HasHeaderThrows is when its substr throws
hasHeader(line, prop) ==
    /\ SubSeq(line, 1, Min(8, Len(line))) = "property"
    /\ ~SuffixThrows(line, prop)
    /\ SuffixIs(line, prop)

HasHeaderThrows(line, prop) ==
    /\ SubSeq(line, 1, Min(8, Len(line))) = "property"
    /\ SuffixThrows(line, prop)

\* the property names every pass of the header loop tests
LoopProps == {"nx", "red", "green", "blue", "views", "label", "classification", "class"}

HeaderGuard == 100

\* The header loop's state before its first pass
Schema0 ==
    [hasNormals |-> FALSE, hasColors |-> FALSE, hasViews |-> FALSE,
     labelDim |-> "", redIdx |-> 0, greenIdx |-> 1, blueIdx |-> 2, thrown |-> FALSE]

\* one pass of the header loop on `line`, the c-th line after x, y, z
ScanLine(st, line, c) ==
    IF \E p \in LoopProps : HasHeaderThrows(line, p)
    THEN [st EXCEPT !.thrown = TRUE]
    ELSE [st EXCEPT
            !.hasNormals = @ \/ hasHeader(line, "nx") \/ hasHeader(line, "normal_x")
                             \/ hasHeader(line, "normalx"),
            !.hasColors = @ \/ hasHeader(line, "red") \/ hasHeader(line, "green")
                            \/ hasHeader(line, "blue"),
            !.redIdx = IF hasHeader(line, "red") THEN c ELSE @,
            !.greenIdx = IF hasHeader(line, "green") THEN c ELSE @,
            !.blueIdx = IF hasHeader(line, "blue") THEN c ELSE @,
            !.hasViews = @ \/ hasHeader(line, "views"),
            !.labelDim = IF hasHeader(line, "class") THEN "class"
                         ELSE IF hasHeader(line, "classification") THEN "classification"
                         ELSE IF hasHeader(line, "label") THEN "label"
                         ELSE @]

\* while (line != "end_header") { ...; if (c++ > 100) break; getline }
\* from line i of the file on; past the last line every pass reads "" and
\* changes nothing, so the scan stops there.  `next` is the first body line.
RECURSIVE ScanHeader(_, _, _, _)
ScanHeader(f, i, c, st) ==
    LET line == RemoveCR(LineAt(f, i)) IN
    IF line = "end_header" \/ i > Len(f.hdr) THEN st
    ELSE LET st2 == ScanLine(st, line, c) IN
         IF st2.thrown \/ c > HeaderGuard THEN st2
         ELSE ScanHeader(f, i + 1, c + 1, st2)

\* the offsets after the minimum is subtracted
ResolveOffsets(st) ==
    LET colorIdxMin == Min(Min(st.redIdx, st.greenIdx), st.blueIdx) IN
    [red |-> st.redIdx - colorIdxMin, green |-> st.greenIdx - colorIdxMin,
     blue |-> st.blueIdx - colorIdxMin]

\* the test that lets the offsets through
OffsetsAccepted(o) == o.red + o.green + o.blue = 3

(***************************************************************************)
(* PointSet                                                                *)
(***************************************************************************)

\* kdTree == nullptr
NoTree == -1

\* m_spacing = -1.0, in units of 0.01
Sentinel == -100

NewPointSet ==
    [points |-> << >>, colors |-> << >>, normals |-> << >>, labels |-> << >>,
     views |-> << >>, pointMap |-> << >>, kdTree |-> NoTree, m_spacing |-> Sentinel]

count(p) == Len(p.points)

hasNormals(p) == Len(p.normals) > 0

hasColors(p) == Len(p.colors) > 0

hasViews(p) == Len(p.views) > 0

hasLabels(p) == Len(p.labels) > 0

(***************************************************************************)
(* Bytes and floats                                                        *)
(***************************************************************************)

Zeros(n) == [k \in 1..n |-> 0]

\* the little-endian float whose four bytes start at mem[k]
F32(mem, k) == mem[k] + 256 * mem[k + 1] + 65536 * mem[k + 2] + 16777216 * mem[k + 3]

\* the four bytes of float x in memory
F32Bytes(x) == << x % 256, (x \div 256) % 256, (x \div 65536) % 256, (x \div 16777216) % 256 >>

\* std::array<float, 3> to and from its 12 bytes
Vec3Bytes(v) == F32Bytes(v[1]) \o F32Bytes(v[2]) \o F32Bytes(v[3])

Vec3Of(mem) == << F32(mem, 1), F32(mem, 5), F32(mem, 9) >>

\* static_cast<uint8_t>(x)
U8(x) == x % 256

(***************************************************************************)
(* fastPlyReadPointSet: the body.  rd is the stream: pos bytes or tokens   *)
(* consumed, fail once a read came short.                                  *)
(***************************************************************************)

\* reader.read(mem, n): the bytes that are left overwrite the head of mem;
\* a short read sets failbit, and a failed stream reads nothing
ReadBytes(body, rd, n, mem) ==
    IF rd.fail THEN [rd |-> rd, mem |-> mem]
    ELSE LET got == Min(n, Len(body) - rd.pos) IN
         [rd |-> [pos |-> rd.pos + got, fail |-> got < n],
          mem |-> [k \in 1..n |-> IF k <= got THEN body[rd.pos + k] ELSE mem[k]]]

\* r->colors[i][idx] = v on the vector's storage, 3 bytes a point: idx = 3
\* lands on the next point's first byte, or past the end of the buffer
WriteColor(st, i, idx, v) ==
    LET at == 3 * (i - 1) + idx + 1 IN
    IF at <= Len(st.cflat) THEN [st EXCEPT !.cflat[at] = v]
    ELSE [st EXCEPT !.ub = TRUE]

\* the three stores of one point's color, in the code's order
StoreColor(st, i, off, c) ==
    WriteColor(WriteColor(WriteColor(st, i, off.red, c[1]), i, off.green, c[2]),
               i, off.blue, c[3])

\* the columns after the resize calls; g is what uninitialized locals hold
Decode0(n, sch, g) ==
    [rd |-> [pos |-> 0, fail |-> FALSE],
     color |-> << g, g, g >>, buf |-> g, ub |-> FALSE,
     points |-> [k \in 1..n |-> << 0, 0, 0 >>],
     normals |-> IF sch.hasNormals THEN [k \in 1..n |-> << 0, 0, 0 >>] ELSE << >>,
     cflat |-> IF sch.hasColors THEN Zeros(3 * n) ELSE << >>,
     views |-> IF sch.hasViews THEN Zeros(n) ELSE << >>,
     labels |-> IF sch.labelDim # "" THEN Zeros(n) ELSE << >>]

\* reader.read(r->points[i].data(), sizeof(float) * 3)
StorePoint(st, i, p) == [st EXCEPT !.rd = p.rd, !.points[i] = Vec3Of(p.mem)]

BinaryPoint(body, st, i) ==
    StorePoint(st, i, ReadBytes(body, st.rd, 12, Vec3Bytes(st.points[i])))

\* if (hasNormals) reader.read(r->normals[i].data(), sizeof(float) * 3)
StoreNormal(st, i, n) == [st EXCEPT !.rd = n.rd, !.normals[i] = Vec3Of(n.mem)]

BinaryNormal(body, sch, st, i) ==
    IF sch.hasNormals
    THEN StoreNormal(st, i, ReadBytes(body, st.rd, 12, Vec3Bytes(st.normals[i])))
    ELSE st

\* if (hasColors) { reader.read(&color, 3); the three stores }
StoreRead(st, i, off, c) == StoreColor([st EXCEPT !.rd = c.rd, !.color = c.mem], i, off, c.mem)

BinaryColor(body, sch, off, st, i) ==
    IF sch.hasColors THEN StoreRead(st, i, off, ReadBytes(body, st.rd, 3, st.color)) ELSE st

\* if (hasViews) reader.read(&r->views[i], 1)
StoreView(st, i, v) == [st EXCEPT !.rd = v.rd, !.views[i] = v.mem[1]]

BinaryView(body, sch, st, i) ==
    IF sch.hasViews THEN StoreView(st, i, ReadBytes(body, st.rd, 1, << st.views[i] >>)) ELSE st

\* if (hasLabels) reader.read(&r->labels[i], 1)
StoreLabel(st, i, l) == [st EXCEPT !.rd = l.rd, !.labels[i] = l.mem[1]]

BinaryLabel(body, sch, st, i) ==
    IF sch.labelDim # ""
    THEN StoreLabel(st, i, ReadBytes(body, st.rd, 1, << st.labels[i] >>)) ELSE st

\* one pass of the binary loop, for point i
BinaryRecord(body, sch, off, st, i) ==
    BinaryLabel(body, sch,
        BinaryView(body, sch,
            BinaryColor(body, sch, off,
                BinaryNormal(body, sch, BinaryPoint(body, st, i), i), i), i), i)

\* 2^e
RECURSIVE Pow2(_)
Pow2(e) == IF e = 0 THEN 1 ELSE 2 * Pow2(e - 1)

\* the exponent of the leading bit of n >= 1
RECURSIVE Log2(_)
Log2(n) == IF n < 2 THEN 0 ELSE 1 + Log2(n \div 2)

\* reader >> float on the numeral n (0 <= n < 2^24): the bits of float(n)
AsciiFloat(n) ==
    IF n = 0 THEN 0
    ELSE LET e == Log2(n) IN (127 + e) * 8388608 + (n - Pow2(e)) * Pow2(23 - e)

\* reader >> x: a failed stream, or one with no token left, leaves x alone
\* and has failbit set; else the next token is taken
Extract(body, rd) ==
    IF rd.fail \/ rd.pos >= Len(body)
    THEN [rd |-> [pos |-> rd.pos, fail |-> TRUE], got |-> FALSE, tok |-> 0]
    ELSE [rd |-> [pos |-> rd.pos + 1, fail |-> FALSE], got |-> TRUE, tok |-> body[rd.pos + 1]]

\* reader >> x for a float x, given what Extract found
FloatOf(e, x) == [rd |-> e.rd, val |-> IF e.got THEN AsciiFloat(e.tok) ELSE x]

ExtractFloat(body, rd, x) == FloatOf(Extract(body, rd), x)

\* reader >> buf, a uint16_t: a numeral above 65535 stores 65535 and fails
U16Of(e, buf) ==
    IF ~e.got THEN [rd |-> e.rd, val |-> buf]
    ELSE IF e.tok > 65535 THEN [rd |-> [e.rd EXCEPT !.fail = TRUE], val |-> 65535]
    ELSE [rd |-> e.rd, val |-> e.tok]

ExtractU16(body, rd, buf) == U16Of(Extract(body, rd), buf)

\* reader >> v[k], into component k of the vector col[i] of st
StoreFloat(st, col, i, k, e) ==
    IF col = "points" THEN [st EXCEPT !.rd = e.rd, !.points[i][k] = e.val]
    ELSE [st EXCEPT !.rd = e.rd, !.normals[i][k] = e.val]

AsciiFloatInto(body, st, col, i, k) ==
    StoreFloat(st, col, i, k,
               ExtractFloat(body, st.rd, IF col = "points" THEN st.points[i][k]
                                         ELSE st.normals[i][k]))

\* reader >> v[0] >> v[1] >> v[2]
AsciiVec3(body, st, col, i) ==
    AsciiFloatInto(body, AsciiFloatInto(body, AsciiFloatInto(body, st, col, i, 1), col, i, 2),
                   col, i, 3)

\* reader >> buf; r->colors[i][idx] = static_cast<uint8_t>(buf)
StoreChannel(st, i, idx, e) ==
    WriteColor([st EXCEPT !.rd = e.rd, !.buf = e.val], i, idx, U8(e.val))

AsciiChannel(body, st, i, idx) == StoreChannel(st, i, idx, ExtractU16(body, st.rd, st.buf))

AsciiColor(body, sch, off, st, i) ==
    IF sch.hasColors
    THEN AsciiChannel(body, AsciiChannel(body, AsciiChannel(body, st, i, off.red),
                                         i, off.green), i, off.blue)
    ELSE st

\* reader >> buf; r->views[i] = static_cast<uint8_t>(buf)
StoreAsciiView(st, i, e) == [st EXCEPT !.rd = e.rd, !.buf = e.val, !.views[i] = U8(e.val)]

AsciiView(body, sch, st, i) ==
    IF sch.hasViews THEN StoreAsciiView(st, i, ExtractU16(body, st.rd, st.buf)) ELSE st

\* reader >> buf; r->labels[i] = static_cast<uint8_t>(buf)
StoreAsciiLabel(st, i, e) == [st EXCEPT !.rd = e.rd, !.buf = e.val, !.labels[i] = U8(e.val)]

AsciiLabel(body, sch, st, i) ==
    IF sch.labelDim # "" THEN StoreAsciiLabel(st, i, ExtractU16(body, st.rd, st.buf)) ELSE st

\* one pass of the ASCII loop, for point i
AsciiRecord(body, sch, off, st, i) ==
    AsciiLabel(body, sch,
        AsciiView(body, sch,
            AsciiColor(body, sch, off,
                (IF sch.hasNormals
                 THEN AsciiVec3(body, AsciiVec3(body, st, "points", i), "normals", i)
                 ELSE AsciiVec3(body, st, "points", i)), i), i), i)

\* for (size_t i = 0; i < count; i++) of either branch, from point i on
RECURSIVE DecodeRecords(_, _, _, _, _, _, _)
DecodeRecords(ascii, body, sch, off, st, i, n) ==
    IF i > n THEN st
    ELSE DecodeRecords(ascii, body, sch, off,
                       IF ascii THEN AsciiRecord(body, sch, off, st, i)
                                ELSE BinaryRecord(body, sch, off, st, i),
                       i + 1, n)

\* the vector of 3-byte colors held in a flat buffer
ColorsOf(cflat) ==
    [k \in 1..(Len(cflat) \div 3) |-> << cflat[3 * k - 2], cflat[3 * k - 1], cflat[3 * k] >>]

\* what fastPlyReadPointSet returns: the PointSet, with what the call went
\* through: the declared count, the schema, the offsets, the stream's end
Loaded(ascii, n, sch, off, st) ==
    [ok |-> TRUE, err |-> "", stage |-> "done",
     pset |-> [NewPointSet EXCEPT !.points = st.points, !.normals = st.normals,
                                  !.colors = ColorsOf(st.cflat),
                                  !.views = st.views, !.labels = st.labels],
     ub |-> st.ub, short |-> st.rd.fail, consumed |-> st.rd.pos,
     ascii |-> ascii, count |-> n, schema |-> sch, offsets |-> off]

\* from the offsets' test on: the resize calls and the loop over the points
ReadBody(f, g, ascii, n, sch, off) ==
    IF ~OffsetsAccepted(off)
    THEN Fail("schema", "runtime_error: red/green/blue properties need to be contiguous")
    ELSE IF n < 0 THEN Fail("resize", "std::length_error")
    ELSE Loaded(ascii, n, sch, off,
                DecodeRecords(ascii, f.body, sch, off, Decode0(n, sch, g), 1, n))

\* after the header loop
ReadSchema(f, g, ascii, n, sch) ==
    IF sch.thrown THEN Fail("schema", "std::out_of_range")
    ELSE ReadBody(f, g, ascii, n, sch, ResolveOffsets(sch))

\* the x, y, z lines, the first at line i of the file, then the header loop
ReadProperties(f, g, ascii, n, i, hx, hy, hz) ==
    IF ~hx.ok THEN Fail("xyz", hx.err)
    ELSE IF ~hy.ok THEN Fail("xyz", hy.err)
    ELSE IF ~hz.ok THEN Fail("xyz", hz.err)
    ELSE ReadSchema(f, g, ascii, n, ScanHeader(f, i + 3, 0, Schema0))

\* getVertexCount on the vertex line; the x line is line i of the file
ReadCount(f, g, ascii, i, vc) ==
    IF ~vc.ok THEN Fail("vertex", vc.err)
    ELSE ReadProperties(f, g, ascii, vc.count, i, checkHeader(LineAt(f, i), "x"),
                        checkHeader(LineAt(f, i + 1), "y"), checkHeader(LineAt(f, i + 2), "z"))

ReadVertex(f, g, ascii, vl) ==
    IF ~vl.ok THEN Fail("vertex", vl.err)
    ELSE ReadCount(f, g, ascii, vl.next, getVertexCount(vl.line))

\* fastPlyReadPointSet(filename) on file f; g is what uninitialized locals hold
fastPlyReadPointSet(f, g) ==
    IF ~f.present THEN Fail("open", "runtime_error: Cannot open file")
    ELSE IF RemoveCR(LineAt(f, 1)) # "ply"
    THEN Fail("magic", "runtime_error: Invalid PLY file (header does not start with ply)")
    ELSE ReadVertex(f, g, RemoveCR(LineAt(f, 2)) = "format ascii 1.0", getVertexLine(f, 3))

(***************************************************************************)
(* getClassMappings.  jsons maps the path of each JSON file on disk to     *)
(* what json::parse makes of it: [classification |-> whether the key is    *)
(* there, map |-> its entries, key (after std::stoi) to class name].       *)
(***************************************************************************)

\* position of the last '/' of s, 0 when there is none
RECURSIVE LastSlash(_, _)
LastSlash(s, i) ==
    IF i = 0 THEN 0
    ELSE IF SubSeq(s, i, i) = "/" THEN i
    ELSE LastSlash(s, i - 1)

\* position of the last '.' of the file name part of s, 0 when there is none
RECURSIVE LastDot(_, _)
LastDot(s, i) ==
    IF i = 0 \/ SubSeq(s, i, i) = "/" THEN 0
    ELSE IF SubSeq(s, i, i) = "." THEN i
    ELSE LastDot(s, i - 1)

\* fs::path(s).extension().string(); a leading dot starts no extension
Extension(s) ==
    LET d == LastDot(s, Len(s)) IN
    IF d = 0 \/ d = LastSlash(s, Len(s)) + 1 THEN "" ELSE SubSeq(s, d, Len(s))

\* p.replace_filename(p.filename().replace_extension(".json")).string()
JsonSibling(s) == SubSeq(s, 1, Len(s) - Len(Extension(s))) \o ".json"

\* p.replace_filename("mappings.json").string()
SharedMappings(s) == SubSeq(s, 1, LastSlash(s, Len(s))) \o "mappings.json"

fileExists(fsys, path) == path \in DOMAIN fsys

\* filename.substr(filename.length() - 5 - 4, 5) throws std::out_of_range
\* when the position wraps around
EvalSubstrThrows(name) == Len(name) < 9

EmptyMapping == << >>

getClassMappings(name, fsys) ==
    IF EvalSubstrThrows(name) THEN Throw("std::out_of_range")
    ELSE
    LET sibling == JsonSibling(name)
        evalName == SubSeq(name, Len(name) - 8, Len(name) - 4) = "_eval"
        jsonFile1 == IF evalName /\ ~fileExists(fsys, sibling)
                     THEN SubSeq(name, 1, Len(name) - 9) \o ".json"
                     ELSE sibling
        jsonFile == IF ~fileExists(fsys, jsonFile1) /\ fileExists(fsys, SharedMappings(name))
                    THEN SharedMappings(name)
                    ELSE jsonFile1
    IN  IF fileExists(fsys, jsonFile) /\ fsys[jsonFile].classification
        THEN [ok |-> TRUE, res |-> fsys[jsonFile].map, jsonFile |-> jsonFile]
        ELSE [ok |-> TRUE, res |-> EmptyMapping, jsonFile |-> jsonFile]

(***************************************************************************)
(* The label tables of labels.hpp                                          *)
(***************************************************************************)

\* getTrainingCodes()
trainingCodes == [unassigned |-> 0, ground |-> 2]

\* trainingCodes[name]: operator[] answers 0 for a name it does not hold
TrainingCode(name) == IF name \in DOMAIN trainingCodes THEN trainingCodes[name] ELSE 0

\* getAsprs2TrainCodes()[label]
Asprs2Train(label) == IF label = 2 THEN trainingCodes["ground"] ELSE trainingCodes["unassigned"]

(***************************************************************************)
(* readPointSet                                                            *)
(***************************************************************************)

\* the loop body of the explicit-mapping branch, for one label
RemapOne_KeepUnmapped(mappings, label) ==
    IF label \in DOMAIN mappings THEN U8(TrainingCode(mappings[label])) ELSE label

RemapOne(mappings, label) ==
    IF label \in DOMAIN mappings THEN U8(TrainingCode(mappings[label]))
    ELSE U8(TrainingCode("unassigned"))

\* both loops over r->labels
RemapLabels(mappings, labels) ==
    IF DOMAIN mappings # {}
    THEN [k \in 1..Len(labels) |-> RemapOne(mappings, labels[k])]
    ELSE [k \in 1..Len(labels) |-> U8(Asprs2Train(labels[k]))]

\* the label column rewritten with the mappings m found for the file
ApplyMappings(r, m) ==
    IF ~m.ok THEN Fail("mappings", m.err)
    ELSE [r EXCEPT !.pset.labels = RemapLabels(m.res, r.pset.labels)]
         @@ [decoded |-> r.pset, mappings |-> m.res, remapped |-> TRUE]

\* if (r->hasLabels()) { ... } on what the reader returned
RemapIfLabeled(name, fsys, r) ==
    IF ~r.ok THEN r
    ELSE IF ~hasLabels(r.pset)
    THEN r @@ [decoded |-> r.pset, mappings |-> EmptyMapping, remapped |-> FALSE]
    ELSE ApplyMappings(r, getClassMappings(name, fsys))

\* readPointSet(filename): the reader chosen by the extension, then the
\* remap of a label column.  decoded is the PointSet as the reader left it.
readPointSet(name, f, fsys, g) ==
    IF Extension(name) # ".ply"
    THEN Fail("extension", "runtime_error: Unsupported file extension")
    ELSE RemapIfLabeled(name, fsys, fastPlyReadPointSet(f, g))

(***************************************************************************)
(* savePointSet and fastPlySavePointSet                                    *)
(***************************************************************************)

DigitChar(d) == SubSeq("0123456789", d + 1, d + 1)

\* o << n for a size_t
RECURSIVE Decimal(_)
Decimal(n) == IF n < 10 THEN DigitChar(n) ELSE Decimal(n \div 10) \o DigitChar(n % 10)

\* the header lines fastPlySavePointSet writes
SavedHeader(p) ==
    << "ply", "format binary_little_endian 1.0", "comment Generated by OpenPointClass",
       "element vertex " \o Decimal(count(p)),
       "property float x", "property float y", "property float z" >>
    \o (IF hasNormals(p) THEN << "property float nx", "property float ny", "property float nz" >>
        ELSE << >>)
    \o (IF hasColors(p) THEN << "property uchar red", "property uchar green", "property uchar blue" >>
        ELSE << >>)
    \o (IF hasViews(p) THEN << "property uchar views" >> ELSE << >>)
    \o (IF hasLabels(p) THEN << "property uchar classification" >> ELSE << >>)
    \o << "end_header" >>

\* col[i] of a vector; past its end the read is out of bounds and yields g
At(col, i, g) == IF i <= Len(col) THEN col[i] ELSE g

\* the bytes o.write puts out for point i
SavedRecord(p, i, g) ==
    Vec3Bytes(p.points[i])
    \o (IF hasNormals(p) THEN Vec3Bytes(At(p.normals, i, << g, g, g >>)) ELSE << >>)
    \o (IF hasColors(p) THEN At(p.colors, i, << g, g, g >>) ELSE << >>)
    \o (IF hasViews(p) THEN << At(p.views, i, g) >> ELSE << >>)
    \o (IF hasLabels(p) THEN << At(p.labels, i, g) >> ELSE << >>)

\* for (size_t i = 0; i < pSet.count(); i++) of fastPlySavePointSet, from i on
RECURSIVE SavedBody(_, _, _)
SavedBody(p, i, g) ==
    IF i > count(p) THEN << >> ELSE SavedRecord(p, i, g) \o SavedBody(p, i + 1, g)

fastPlySavePointSet(p, g) == File(SavedHeader(p), SavedBody(p, 1, g))

\* the first loop of savePointSet reads pSet.labels[idx] for every point:
\* out of bounds when the label column is shorter than the point column
SaveReadsOutOfBounds(p) == Len(p.labels) < count(p)

(***************************************************************************)
(* PointSet::spacing                                                       *)
(***************************************************************************)

MaxSamples == 10000

\* getIndex<KdTree>(): builds the index over the points there are, once
getIndex(p) == IF p.kdTree # NoTree THEN p.kdTree ELSE count(p)

\* the histogram of a sequence of bucket keys: key -> frequency
Histogram(keys) ==
    [d \in {keys[i] : i \in 1..Len(keys)} |-> Cardinality({i \in 1..Len(keys) : keys[i] = d})]

\* The orders the scan may meet the buckets in: the iteration order of an
\* unordered_map is unspecified.
ScanOrders(h) ==
    {o \in [1..Cardinality(DOMAIN h) -> DOMAIN h] :
        \A i, j \in 1..Cardinality(DOMAIN h) : o[i] = o[j] => i = j}

\* if (it.second > max_val)
Exceeds_OrEqual(freq, max_val) == freq >= max_val

Exceeds(freq, max_val) == freq > max_val

\* size_t max_val = 0; size_t d = 0;
Scan0 == [d |-> 0, max_val |-> 0]

\* for (const auto it : dist_map) { ... }, from the i-th bucket met on
RECURSIVE ScanMode(_, _, _, _)
ScanMode(h, order, i, m) ==
    IF i > Len(order) THEN m.d
    ELSE ScanMode(h, order, i + 1,
                  IF Exceeds(h[order[i]], m.max_val)
                  THEN [d |-> order[i], max_val |-> h[order[i]]]
                  ELSE m)

\* m_spacing = std::max(0.01, d / 100.0), in units of 0.01
SpacingOf(d) == Max(1, d)

(***************************************************************************)
(* Inputs                                                                  *)
(***************************************************************************)

\* points of a PointSet that is saved and loaded back
MaxPoints == 3

\* points of the file a PointSet is loaded from before spacing() and
\* appendPoint are called on it
MaxLoaded == 2

\* points a PointSet grows to by appendPoint
MaxCount == 3

\* largest histogram bucket key a sample yields
MaxKey == 2

\* largest kNeighbors handed to spacing()
MaxNeighbors == 2

\* property lines after x, y, z in an input header
MaxProps == 4

\* what an uninitialized local or an out-of-bounds read may hold
Garbage == {0, 171}

LabelVals == {2, 5, 7}

\* 1065353216 is the bit pattern of 1.0f
PointAt(i, v) == << 1065353216 + i, 258 * i + v, i >>

NormalAt(i, v) == << i + v, 1065353216, 7 >>

ColorAt(i, v) == << 10 * i + v, 10 * i + 1, 200 + i >>

\* a PointSet of n points with the optional columns the flags name
MkSet(n, hn, hc, hv, lab, v) ==
    [NewPointSet EXCEPT
        !.points = [i \in 1..n |-> PointAt(i, v)],
        !.normals = IF hn THEN [i \in 1..n |-> NormalAt(i, v)] ELSE << >>,
        !.colors = IF hc THEN [i \in 1..n |-> ColorAt(i, v)] ELSE << >>,
        !.views = IF hv THEN [i \in 1..n |-> 3 * i + v] ELSE << >>,
        !.labels = lab]

\* the label columns of a PointSet of n points: none, or one label a point
LabelColumns(n) == IF n = 0 THEN {<< >>} ELSE {<< >>} \cup [1..n -> LabelVals]

Datasets(maxn, variants) ==
    {MkSet(n, hn, hc, hv, lab, v) :
        n \in 0..maxn, hn \in BOOLEAN, hc \in BOOLEAN, hv \in BOOLEAN,
        lab \in UNION {LabelColumns(m) : m \in 0..maxn}, v \in variants}

\* those whose columns are empty or as long as the point column
WellFormed(p) ==
    /\ Len(p.normals) \in {0, count(p)}
    /\ Len(p.colors) \in {0, count(p)}
    /\ Len(p.views) \in {0, count(p)}
    /\ Len(p.labels) \in {0, count(p)}

\* the source of appendPoint / trackPoint: one point, with or without
\* colors, its pointMap sized by the caller
SrcSets ==
    {[MkSet(1, FALSE, hc, FALSE, << >>, 1) EXCEPT !.pointMap = << 0 >>] : hc \in BOOLEAN}

\* PointSets as a load leaves them: colors or not, the other optional
\* columns all there or all missing, the labels all alike
LoadedShapes ==
    {MkSet(n, ho, hc, ho, IF ho THEN [i \in 1..n |-> 2] ELSE << >>, 0) :
        n \in 0..MaxLoaded, hc \in BOOLEAN, ho \in BOOLEAN}

NoJsons == << >>

GroundMapping == [k \in {5} |-> "ground"]

TwoClassMapping == [k \in {2, 5} |-> IF k = 5 THEN "ground" ELSE "unassigned"]

NoCall == [op |-> "none", ok |-> TRUE, err |-> "", stage |-> "none"]

\* What the spacing() calls on the PointSet did so far.  The counters stop
\* at 2: calls made, calls that returned a value, calls that went past the
\* cache test and stored a value; whether the first call returned a value and
\* what it returned; the value of the first call that returned one.
NoHist ==
    [calls |-> 0, returned |-> 0, computed |-> 0,
     firstOk |-> FALSE, first |-> Sentinel, value |-> Sentinel]

\* hist after one more call: ok when it returned val, stored when it went
\* past the cache test and stored val
Called(h, ok, val, stored) ==
    [calls |-> Min(h.calls + 1, 2),
     returned |-> IF ok THEN Min(h.returned + 1, 2) ELSE h.returned,
     computed |-> IF stored THEN Min(h.computed + 1, 2) ELSE h.computed,
     firstOk |-> IF h.calls = 0 THEN ok ELSE h.firstOk,
     first |-> IF h.calls = 0 THEN val ELSE h.first,
     value |-> IF ok /\ h.returned = 0 THEN val ELSE h.value]

(***************************************************************************)
(* Operations                                                              *)
(***************************************************************************)

\* the process died (a read or write outside an object's memory)
Crashed == ret.op = "crashed"

Crash(what) == [op |-> "crashed", ok |-> FALSE, err |-> what, stage |-> "crashed"]

\* r = readPointSet(filename).  A color stored past the end of the colors
\* buffer kills the process, or goes unnoticed.
Load ==
    /\ ~Crashed
    /\ \E g \in Garbage, segv \in BOOLEAN :
       \E r \in {readPointSet(filename, disk, jsons, g)} :
         IF r.ok /\ r.ub /\ segv
         THEN /\ ret' = Crash("colors[i][idx] written out of bounds")
              /\ UNCHANGED <<pSet, hist>>
         ELSE /\ ret' = [op |-> "readPointSet"] @@ r
              /\ pSet' = IF r.ok THEN r.pset ELSE pSet
              /\ hist' = IF r.ok THEN NoHist ELSE hist
    /\ UNCHANGED <<filename, disk, jsons, src, saved>>

\* savePointSet(pSet, filename)
Save ==
    /\ ~Crashed
    /\ \E g \in Garbage, segv \in BOOLEAN :
         IF Extension(filename) # ".ply"
         THEN /\ ret' = [op |-> "savePointSet"] @@ Fail("extension", "runtime_error: Unsupported file extension")
              /\ UNCHANGED <<disk, saved>>
         ELSE IF SaveReadsOutOfBounds(pSet) /\ segv
         THEN /\ ret' = Crash("labels[idx] read out of bounds")
              /\ UNCHANGED <<disk, saved>>
         ELSE /\ disk' = fastPlySavePointSet(pSet, g)
              /\ saved' = pSet
              /\ ret' = [op |-> "savePointSet", ok |-> TRUE, err |-> "", stage |-> "done"]
    /\ UNCHANGED <<filename, jsons, pSet, src, hist>>

\* what a spacing() call did: the value returned (Sentinel when none was),
\* the neighbor queries made, the histogram of the samples' bucket keys and
\* the order its buckets were scanned in
SpacingRet(ok, err, k, val, keys, hit, scan) ==
    [op |-> "spacing", ok |-> ok, err |-> err, stage |-> "done", k |-> k,
     val |-> val, queries |-> Len(keys), buckets |-> Histogram(keys), hit |-> hit,
     scan |-> scan]

\* if (m_spacing != -1) return m_spacing
Cached_Never(p) == FALSE

Cached(p) == p.m_spacing # Sentinel

\* The bucket keys one sample may yield.  The distances come from the
\* spatial index, built over `indexed` points.  kNeighbors = 1 averages
\* nothing, and with an index over fewer than 2 points every averaged
\* distance is the 0 the vector was filled with: key 0.
\* kNeighbors = 0 divides 0 by 0 and converts NaN to size_t: any key.
KeysFor(k, indexed) == IF k >= 1 /\ (k = 1 \/ indexed <= 1) THEN {0} ELSE 0..MaxKey

\* pSet.spacing(k)
Spacing(k) ==
    /\ ~Crashed
    /\ IF Cached(pSet)
       THEN /\ ret' = SpacingRet(TRUE, "", k, pSet.m_spacing, << >>, TRUE, << >>)
            /\ hist' = Called(hist, TRUE, pSet.m_spacing, FALSE)
            /\ UNCHANGED pSet
       ELSE LET np == count(pSet)
                SAMPLES == Min(np, MaxSamples)
                built == [pSet EXCEPT !.kdTree = getIndex(pSet)]
            IN  IF k + 1 < 0
                THEN \* std::vector<size_t> indices(count) with count < 0
                     /\ ret' = SpacingRet(FALSE, "std::length_error", k, Sentinel, << >>, FALSE, << >>)
                     /\ pSet' = built
                     /\ hist' = Called(hist, FALSE, Sentinel, FALSE)
                ELSE IF k = -1 /\ SAMPLES > 0
                THEN \* j < kNeighbors holds for every j: sqr_dists[j] runs off the vector
                     /\ ret' = Crash("sqr_dists[j] read out of bounds")
                     /\ pSet' = built
                     /\ UNCHANGED hist
                ELSE \E keys \in [1..SAMPLES -> KeysFor(k, built.kdTree)] :
                     \E order \in ScanOrders(Histogram(keys)) :
                     \E d \in {ScanMode(Histogram(keys), order, 1, Scan0)} :
                        /\ pSet' = [built EXCEPT !.m_spacing = SpacingOf(d)]
                        /\ ret' = SpacingRet(TRUE, "", k, SpacingOf(d), keys, FALSE, order)
                        /\ hist' = Called(hist, TRUE, SpacingOf(d), TRUE)
    /\ UNCHANGED <<filename, disk, jsons, src, saved>>

\* pSet.appendPoint(src, idx), idx + 1 = i.  src.colors[idx] of a source
\* without colors is read out of bounds: the process dies, or g is read.
AppendPoint(i) ==
    /\ ~Crashed
    /\ i \in 1..count(src)
    /\ count(pSet) < MaxCount
    /\ \E g \in Garbage, segv \in BOOLEAN :
         IF i > Len(src.colors) /\ segv
         THEN /\ ret' = Crash("src.colors[idx] read out of bounds")
              /\ pSet' = [pSet EXCEPT !.points = Append(@, src.points[i])]
         ELSE /\ ret' = [op |-> "appendPoint", ok |-> TRUE, err |-> "", stage |-> "done"]
              /\ pSet' = [pSet EXCEPT !.points = Append(@, src.points[i]),
                                      !.colors = Append(@, At(src.colors, i, << g, g, g >>))]
    /\ UNCHANGED <<filename, disk, jsons, src, saved, hist>>

\* pSet.trackPoint(src, idx), idx + 1 = i: src.pointMap[idx] = points.size() - 1
TrackPoint(i) ==
    /\ ~Crashed
    /\ i \in 1..Len(src.pointMap)
    /\ src' = [src EXCEPT !.pointMap[i] = count(pSet) - 1]
    /\ ret' = [op |-> "trackPoint", ok |-> TRUE, err |-> "", stage |-> "done"]
    /\ UNCHANGED <<filename, disk, jsons, pSet, saved, hist>>

(***************************************************************************)
(* Input files of the reader                                               *)
(***************************************************************************)

BinaryFormat == "format binary_little_endian 1.0"

AsciiFormat == "format ascii 1.0"

StandardXYZ == << "property float x", "property float y", "property float z" >>

\* a header: magic, format, the lines up to the vertex line, the x, y, z
\* lines, the property lines after them, the end marker
Header(magic, fmt, vertexLines, xyz, props) ==
    << magic, fmt >> \o vertexLines \o xyz \o props \o << "end_header" >>

SeqsUpTo(S, n) == UNION {[1..m -> S] : m \in 0..n}

\* an input of readPointSet: the name, the file, the JSON files beside it
Input(name, file, fsys) == [name |-> name, file |-> file, jsons |-> fsys]

\* the token a PointSet's i-th body value is written as in an ASCII body
AsciiTokens(len) == [i \in 1..len |-> 300 * i]

\* values a record of the columns of d takes in an ASCII body
TokensPerRecord(d) ==
    3 + (IF hasNormals(d) THEN 3 ELSE 0) + (IF hasColors(d) THEN 3 ELSE 0)
      + (IF hasViews(d) THEN 1 ELSE 0) + (IF hasLabels(d) THEN 1 ELSE 0)

\* the file the writer makes of d, cut after len bytes
BinaryCut(d, len) ==
    File(SavedHeader(d), SubSeq(SavedBody(d, 1, 0), 1, len))

\* the same header declaring an ASCII body, with the first len tokens of it
AsciiCut(d, len) ==
    File([SavedHeader(d) EXCEPT ![2] = AsciiFormat], AsciiTokens(len))

\* files whose body is whole, or stops anywhere before its end
CutFiles ==
    UNION {{BinaryCut(d, len) : len \in 0..Len(SavedBody(d, 1, 0))}
           \cup {AsciiCut(d, len) : len \in 0..(count(d) * TokensPerRecord(d))} :
           d \in LoadedShapes}

\* property lines after x, y, z: the colors, a field the reader does not
\* know, and a property line shorter than the longest name it looks for
PropLines ==
    {"property uchar red", "property uchar green", "property uchar blue",
     "property float s", "property a b"}

\* headers declaring any MaxProps of those lines, over a body of 64 values
\* for 2 points
SchemaFiles ==
    {File(Header("ply", fmt, << "element vertex 2" >>, StandardXYZ, props),
          [i \in 1..64 |-> i]) :
        fmt \in {BinaryFormat, AsciiFormat}, props \in SeqsUpTo(PropLines, MaxProps)}

\* the line the record count is read from
VertexLines ==
    {"element vertex 2", "element vertex 0", "element vertex -1", "element vertex abc",
     "element vertex", "element face 2", "elementary vertex 2", "element  vertex 2",
     "element vertex 2abc", "element vertex 2\r", "vertex element 2", "end_header", ""}

\* the lines before it
Preambles ==
    {<< >>, << "comment made by hand" >>, << "comment a", "comment b" >>, << "obj_info x" >>}

XYZLines ==
    {StandardXYZ,
     << "property float x\r", "property float y\r", "property float z\r" >>,
     << "property float y", "property float x", "property float z" >>,
     << "", "property float y", "property float z" >>}

\* headers with those lines over the 24 bytes of 2 points
VertexFiles ==
    {File(Header(magic, BinaryFormat, pre \o << vl >>, xyz, << >>), [i \in 1..24 |-> i]) :
        magic \in {"ply", "ply\r", "plyx"}, pre \in Preambles, vl \in VertexLines,
        xyz \in XYZLines}

\* the names of the file that is read
FileNames ==
    {"a.ply", "data.ply", "cloud.ply", "a_eval.ply", "d/ab_eval.ply", "d/cloud.ply",
     "cloud.txt", ".ply"}

JsonPaths ==
    {"a.json", "data.json", "cloud.json", "a_eval.json", "d/ab.json", "d/ab_eval.json",
     "mappings.json", "d/mappings.json"}

\* what json::parse makes of a JSON file: with or without the key
JsonContents ==
    {[classification |-> TRUE, map |-> GroundMapping],
     [classification |-> TRUE, map |-> EmptyMapping],
     [classification |-> FALSE, map |-> EmptyMapping]}

\* no JSON file, one, or the sibling together with the stripped sibling
JsonEnvs ==
    {NoJsons}
    \cup {[p \in {path} |-> c] : path \in JsonPaths, c \in JsonContents}
    \cup {[p \in {"d/ab_eval.json", "d/ab.json"} |->
              [classification |-> p = "d/ab.json", map |->
                  IF p = "d/ab.json" THEN GroundMapping ELSE EmptyMapping]]}

\* a file of 2 points with labels 5 and 7, and one without labels
NamedFiles ==
    {fastPlySavePointSet(MkSet(2, FALSE, FALSE, FALSE, lab, 0), 0) : lab \in {<< 5, 7 >>, << >>}}

ReadInputs ==
    {Input("cloud.ply", f, NoJsons) : f \in CutFiles \cup SchemaFiles \cup VertexFiles}
    \cup {Input(name, f, fsys) : name \in FileNames, f \in NamedFiles, fsys \in JsonEnvs}

(***************************************************************************)
(* Spec: a PointSet is loaded, as the first call, from a file the writer   *)
(* wrote, or built with appendPoint; spacing() is called on it.            *)
(***************************************************************************)

Init ==
    /\ filename = "cloud.ply"
    /\ disk \in {fastPlySavePointSet(d, 0) : d \in LoadedShapes}
    /\ jsons = NoJsons
    /\ pSet = NewPointSet
    /\ src \in SrcSets
    /\ ret = NoCall
    /\ saved = NewPointSet
    /\ hist = NoHist

\* the load the PointSet comes from
FirstLoad == ret = NoCall /\ Load

Next ==
    \/ FirstLoad
    \/ \E k \in -2..MaxNeighbors : Spacing(k)
    \/ \E i \in 1..count(src) : AppendPoint(i)
    \/ \E i \in 1..count(src) : TrackPoint(i)

Spec == Init /\ [][Next]_vars

(***************************************************************************)
(* SpecSpacing: spacing() is called again and again on a loaded PointSet   *)
(* whose points do not change.                                             *)
(***************************************************************************)

InitSpacing ==
    /\ Init
    /\ hasColors(src)

NextSpacing ==
    \/ FirstLoad
    \/ \E k \in -2..MaxNeighbors : Spacing(k)

SpecSpacing == InitSpacing /\ [][NextSpacing]_vars

(***************************************************************************)
(* SpecCodec: a PointSet whose columns are empty or full is saved and      *)
(* loaded back, with or without a JSON file beside the file.               *)
(***************************************************************************)

InitCodec ==
    /\ filename = "cloud.ply"
    /\ disk = NoFile
    /\ jsons \in {NoJsons}
                \cup {[p \in {"cloud.json"} |-> [classification |-> TRUE, map |-> m]] :
                         m \in {GroundMapping, TwoClassMapping}}
    /\ pSet \in {d \in Datasets(MaxPoints, {0}) : WellFormed(d)}
    /\ src \in {d \in SrcSets : hasColors(d)}
    /\ ret = NoCall
    /\ saved = NewPointSet
    /\ hist = NoHist

NextCodec ==
    \/ Save
    \/ Load

SpecCodec == InitCodec /\ [][NextCodec]_vars

(***************************************************************************)
(* SpecRead: readPointSet is called on a file of any of the input shapes.  *)
(***************************************************************************)

InitRead ==
    /\ \E inp \in ReadInputs :
         /\ filename = inp.name
         /\ disk = inp.file
         /\ jsons = inp.jsons
    /\ pSet = NewPointSet
    /\ src \in {d \in SrcSets : hasColors(d)}
    /\ ret = NoCall
    /\ saved = NewPointSet
    /\ hist = NoHist

NextRead == Load

SpecRead == InitRead /\ [][NextRead]_vars

(***************************************************************************)
(* The claims                                                              *)
(***************************************************************************)

SameColumns(a, b) ==
    /\ a.points = b.points
    /\ a.normals = b.normals
    /\ a.colors = b.colors
    /\ a.views = b.views
    /\ a.labels = b.labels

\* C1, as claimed: a load of the file a save of D wrote succeeds and yields
\* a PointSet equal to D column for column.
C1_RoundTrip ==
    (ret.op = "readPointSet" /\ disk.present) => (ret.ok /\ SameColumns(pSet, saved))

\* C1, where the code departs: D with the one label 5 comes back with label 0
C1_Diverges ==
    /\ ret.op = "readPointSet" /\ ret.ok /\ jsons = NoJsons
    /\ saved.labels = << 5 >> /\ pSet.labels = << 0 >>
    /\ pSet.points = saved.points

\* bytes (binary) or tokens (ASCII) one record of the schema takes
RecordSize(sch, ascii) ==
    (IF ascii THEN 3 ELSE 12)
    + (IF sch.hasNormals THEN (IF ascii THEN 3 ELSE 12) ELSE 0)
    + (IF sch.hasColors THEN 3 ELSE 0)
    + (IF sch.hasViews THEN 1 ELSE 0)
    + (IF sch.labelDim # "" THEN 1 ELSE 0)

\* C2, as claimed: a load never returns a PointSet from a body that holds
\* fewer bytes or tokens than the declared count of records takes.
C2_Truncation ==
    (ret.op = "readPointSet" /\ ret.ok) =>
        Len(disk.body) >= ret.count * RecordSize(ret.schema, ret.ascii)

\* C2, where the code departs: 2 points declared, an empty body, and the
\* load returns 2 zero-filled points
C2_Diverges ==
    /\ ret.op = "readPointSet" /\ ret.ok /\ ret.short
    /\ ret.count = 2 /\ disk.body = << >>
    /\ pSet.points = << << 0, 0, 0 >>, << 0, 0, 0 >> >>

\* C3, as claimed: whenever the header is accepted and decoding proceeds,
\* the resolved red, green and blue offsets are exactly the set {0, 1, 2}.
C3_SchemaRejection ==
    (ret.op = "readPointSet" /\ ret.ok) =>
        {ret.offsets.red, ret.offsets.green, ret.offsets.blue} = {0, 1, 2}

\* C3, where the code departs: offsets 0, 0, 3 are accepted and a color is
\* stored past the end of the colors buffer
C3_Diverges ==
    /\ ret.op = "readPointSet" /\ ret.ok /\ ret.ub
    /\ ret.offsets = [red |-> 0, green |-> 0, blue |-> 3]

\* C4: after readPointSet found a non-empty mapping for a labeled file,
\* every label is the training code of the class its old value maps to,
\* or the code of "unassigned" when the mapping has no entry for it; the
\* points and their number and order are as decoded.
C4_ExplicitRemap ==
    (ret.op = "readPointSet" /\ ret.ok /\ ret.remapped /\ DOMAIN ret.mappings # {}) =>
        /\ pSet.points = ret.decoded.points
        /\ Len(pSet.labels) = Len(ret.decoded.labels)
        /\ \A i \in 1..Len(pSet.labels) :
             pSet.labels[i] =
                 IF ret.decoded.labels[i] \in DOMAIN ret.mappings
                 THEN trainingCodes[ret.mappings[ret.decoded.labels[i]]]
                 ELSE trainingCodes["unassigned"]

\* C4's case: mapping {5: ground}, labels 5, 7, 5 on disk, loaded as 2, 0, 2
C4_Remapped ==
    /\ ret.op = "readPointSet" /\ ret.ok /\ ret.remapped
    /\ ret.mappings = GroundMapping
    /\ ret.decoded.labels = << 5, 7, 5 >>
    /\ pSet.labels = << 2, 0, 2 >>

\* C5, as claimed: spacing() on a PointSet without points fails, makes no
\* neighbor query and leaves m_spacing at the sentinel.
C5_EmptyDataset ==
    (ret.op = "spacing" /\ count(pSet) = 0) =>
        (~ret.ok /\ ret.queries = 0 /\ pSet.m_spacing = Sentinel)

\* C5, where the code departs: the call returns 0.01 and caches it
C5_Diverges ==
    /\ ret.op = "spacing" /\ count(pSet) = 0 /\ ret.k = 2
    /\ ret.ok /\ ~ret.hit /\ ret.val = 1 /\ pSet.m_spacing = 1

\* C6, amended: at most one spacing() call ever goes past the cache test,
\* and every call after the first one that returned a value returns that
\* value and makes no neighbor query.
C6_ComputedOnce ==
    /\ hist.computed <= 1
    /\ (ret.op = "spacing" /\ hist.returned = 2) =>
           (ret.ok /\ ret.val = hist.value /\ ret.queries = 0)

\* C6's case: a second call, with another kNeighbors, on 2 points, after a
\* first call that sampled them
C6_SecondCall ==
    /\ ret.op = "spacing" /\ hist.returned = 2 /\ hist.computed = 1
    /\ count(pSet) = 2 /\ ret.k = 1 /\ ret.val = 2 /\ ret.queries = 0

\* C6, as claimed: every spacing() call but the first makes no neighbor
\* query and returns the value the first call returned.
C6_FirstCallOnly ==
    (ret.op = "spacing" /\ hist.calls = 2) =>
        (ret.queries = 0 /\ ret.ok /\ hist.firstOk /\ ret.val = hist.first)

\* C7, as claimed: spacing(k) with k <= 0 on a PointSet whose spacing is
\* not cached fails and leaves m_spacing at the sentinel.
C7_InvalidNeighbors ==
    (ret.op = "spacing" /\ ret.k <= 0 /\ ~ret.hit) =>
        (~ret.ok /\ pSet.m_spacing = Sentinel)

\* C7, where the code departs: spacing(0) on 2 points returns a value and
\* caches it
C7_Diverges ==
    /\ ret.op = "spacing" /\ ret.k = 0 /\ ~ret.hit /\ count(pSet) = 2
    /\ ret.ok /\ ret.queries = 2 /\ pSet.m_spacing = ret.val /\ ret.val # Sentinel

\* C8, as claimed: in every state of a PointSet each optional column is
\* empty or as long as the point column.
C8_ColumnLengths == ~Crashed => WellFormed(pSet)

\* C8, where the code departs: appendPoint on a loaded PointSet of 1
\* labeled point leaves 2 points and 1 label
C8_Diverges ==
    /\ ret.op = "appendPoint" /\ count(pSet) = 2
    /\ Len(pSet.labels) = 1 /\ Len(pSet.colors) = 2

\* the line the record count is read from: the first line after the format
\* line that is no comment
RECURSIVE CountLine(_, _)
CountLine(f, i) ==
    IF i > Len(f.hdr) THEN ""
    ELSE IF StartsWith(f.hdr[i], "comment") THEN CountLine(f, i + 1)
    ELSE f.hdr[i]

\* an element line whose third token parses as a non-negative integer
WellShapedCount(line) ==
    /\ StartsWith(line, "element")
    /\ Len(Tokens(line)) >= 3
    /\ StoI(Tokens(line)[3]).ok
    /\ StoI(Tokens(line)[3]).val >= 0

\* C9, as claimed: a load that gets to the count line goes on past it only
\* if the line is an element line whose third token is a non-negative
\* integer, which is then N; on any other line the load fails there.
C9_HeaderCount ==
    (ret.op = "readPointSet" /\ ret.stage \notin {"extension", "open", "magic"}) =>
        IF WellShapedCount(CountLine(disk, 3))
        THEN ret.ok => ret.count = StoI(Tokens(CountLine(disk, 3))[3]).val
        ELSE ~ret.ok /\ ret.stage = "vertex"

\* C9, where the code departs: a count of -1 passes the header and the load
\* fails when the columns are allocated
C9_Diverges ==
    /\ ret.op = "readPointSet" /\ CountLine(disk, 3) = "element vertex -1"
    /\ ~ret.ok /\ ret.stage = "resize" /\ ret.err = "std::length_error"

\* C10, as claimed: when no JSON file beside the input holds the
\* "classification" key, getClassMappings raises nothing and the mapping
\* readPointSet gets is empty, whatever the file is named.
C10_MissingMapping ==
    (ret.op = "readPointSet" /\ \A p \in DOMAIN jsons : ~jsons[p].classification) =>
        (ret.stage # "mappings" /\ (ret.ok => ret.mappings = EmptyMapping))

\* C10, where the code departs: a labeled file named a.ply, no JSON file,
\* and getClassMappings throws
C10_Diverges ==
    /\ ret.op = "readPointSet" /\ filename = "a.ply" /\ jsons = NoJsons
    /\ ~ret.ok /\ ret.stage = "mappings" /\ ret.err = "std::out_of_range"

\* the header declares, after x, y, z, exactly the three color fields
ThreeColorFields(f) ==
    /\ Len(f.hdr) = 10
    /\ {f.hdr[7], f.hdr[8], f.hdr[9]} =
           {"property uchar red", "property uchar green", "property uchar blue"}

\* the slot, 0 to 2, of the color field declared with the name
RECURSIVE ColorSlot(_, _, _)
ColorSlot(f, name, c) ==
    IF f.hdr[7 + c] = "property uchar " \o name THEN c ELSE ColorSlot(f, name, c + 1)

\* what the file holds, for point i, in the color field of that slot: a
\* byte of the binary record, or a token of the ASCII record narrowed to 8 bits
ColorField(f, ascii, i, c) ==
    IF ascii THEN f.body[6 * (i - 1) + 3 + c + 1] % 256
    ELSE f.body[15 * (i - 1) + 12 + c + 1]

\* C11, as claimed: whatever the order red, green and blue are declared in,
\* every loaded colors[i] holds the value of the field declared red, then of
\* the field declared green, then of the field declared blue.
C11_ColorOrder ==
    (ret.op = "readPointSet" /\ ret.ok /\ ThreeColorFields(disk)) =>
        \A i \in 1..count(pSet) :
            pSet.colors[i] =
                << ColorField(disk, ret.ascii, i, ColorSlot(disk, "red", 0)),
                   ColorField(disk, ret.ascii, i, ColorSlot(disk, "green", 0)),
                   ColorField(disk, ret.ascii, i, ColorSlot(disk, "blue", 0)) >>

\* C11, where the code departs: fields declared green, blue, red holding
\* 13, 14, 15 are loaded as red 14, green 15, blue 13
C11_Diverges ==
    /\ ret.op = "readPointSet" /\ ret.ok /\ ~ret.ascii
    /\ disk.hdr[7] = "property uchar green"
    /\ disk.hdr[8] = "property uchar blue"
    /\ disk.hdr[9] = "property uchar red"
    /\ SubSeq(disk.body, 13, 15) = << 13, 14, 15 >>
    /\ count(pSet) = 2
    /\ pSet.colors[1] = << 14, 15, 13 >>

\* C12, as claimed: an index that is built covers the N points there are
\* now, and a spacing that is cached was computed over such an index; so
\* after N changed the cache is at the sentinel and no call returns a
\* stale value or queries an index built for another N.
C12_Invalidation ==
    ~Crashed =>
        /\ pSet.kdTree \in {NoTree, count(pSet)}
        /\ pSet.m_spacing # Sentinel => pSet.kdTree = count(pSet)

\* C12, where the code departs: spacing() on 2 points, appendPoint, and
\* spacing() returns the cached value with the index still over 2 points
C12_Diverges ==
    /\ ret.op = "spacing" /\ ret.ok /\ ret.hit /\ ret.queries = 0
    /\ count(pSet) = 3 /\ pSet.kdTree = 2
    /\ ret.val = pSet.m_spacing /\ ret.val = hist.value

\* d is a bucket of maximal frequency, and no bucket met before it in the
\* scan is as frequent
FirstMostFrequent(buckets, scan, d) ==
    /\ d \in DOMAIN buckets
    /\ \A e \in DOMAIN buckets : buckets[e] <= buckets[d]
    /\ \A i, j \in 1..Len(scan) :
           (scan[j] = d /\ i < j) => buckets[scan[i]] < buckets[d]

====
